---- MODULE Spec2Model ----
(***************************************************************************)
(* Model of src/eda_analysis.py: the cleaning / derivation pipeline, the   *)
(* monthly time-series aggregation and the RFM aggregation and scoring.    *)
(*                                                                         *)
(* The script is one straight-line batch program over a pandas DataFrame   *)
(* `df`.  Each numbered section of the script is one action; `pc` is the   *)
(* section the interpreter is about to run.  The data frame is a sequence  *)
(* of rows (records), a float64 value is an exact rational or one of the   *)
(* IEEE specials NaN, +inf, -inf, and an object-dtype cell may also hold   *)
(* text.  Binary floating-point round-off is not modelled: arithmetic on   *)
(* finite values is exact.                                                 *)
(***************************************************************************)
EXTENDS Integers, Sequences, FiniteSets, TLC

(***************************************************************************)
(* float64 values                                                          *)
(***************************************************************************)
RECURSIVE Gcd(_, _)
Gcd(a, b) == IF b = 0 THEN a ELSE Gcd(b, a % b)

Abs(x) == IF x < 0 THEN -x ELSE x

\* The finite float n/d, in lowest terms with a positive denominator.
Num(n, d) ==
    LET s == IF d < 0 THEN -1 ELSE 1
        g == Gcd(Abs(n), Abs(d))
    IN  [k |-> "num", n |-> (s * n) \div g, d |-> (s * d) \div g]

F(i) == [k |-> "num", n |-> i, d |-> 1]
NaN == [k |-> "nan", n |-> 0, d |-> 1]
PosInf == [k |-> "inf", n |-> 1, d |-> 1]
NegInf == [k |-> "inf", n |-> -1, d |-> 1]

\* An object-dtype cell holding text: a decimal numeral (Text(F(600)) is
\* "600") or, with NaN as payload, text that is no number ("abc").
Text(v) == [k |-> "str", n |-> v.n, d |-> IF v.k = "num" THEN v.d ELSE 0]

IsNaN(x) == x.k = "nan"
IsInf(x) == x.k = "inf"
IsFinite(x) == x.k = "num"
Sign(x) == IF x.n > 0 THEN 1 ELSE IF x.n < 0 THEN -1 ELSE 0
Signed(s) == IF s > 0 THEN PosInf ELSE NegInf

FNeg(a) == IF IsNaN(a) THEN NaN ELSE [a EXCEPT !.n = -a.n]

FAdd(a, b) ==
    IF IsNaN(a) \/ IsNaN(b) THEN NaN
    ELSE IF IsInf(a) /\ IsInf(b) THEN (IF a = b THEN a ELSE NaN)
    ELSE IF IsInf(a) THEN a
    ELSE IF IsInf(b) THEN b
    ELSE Num(a.n * b.d + b.n * a.d, a.d * b.d)

FSub(a, b) == FAdd(a, FNeg(b))

FMul(a, b) ==
    IF IsNaN(a) \/ IsNaN(b) THEN NaN
    ELSE IF IsInf(a) \/ IsInf(b)
         THEN (IF Sign(a) * Sign(b) = 0 THEN NaN ELSE Signed(Sign(a) * Sign(b)))
    ELSE Num(a.n * b.n, a.d * b.d)

\* IEEE division: x/0 is +-inf, 0/0 is NaN, nothing is raised (the zero
\* divisors that occur are +0.0).
FDiv(a, b) ==
    IF IsNaN(a) \/ IsNaN(b) THEN NaN
    ELSE IF IsInf(b) THEN (IF IsInf(a) THEN NaN ELSE F(0))
    ELSE IF b.n = 0 THEN (IF Sign(a) = 0 THEN NaN ELSE Signed(Sign(a)))
    ELSE IF IsInf(a) THEN Signed(Sign(a) * Sign(b))
    ELSE Num(a.n * b.d, a.d * b.n)

\* a < b and a <= b; every comparison with NaN is false.
FLt(a, b) ==
    IF IsNaN(a) \/ IsNaN(b) THEN FALSE
    ELSE IF IsInf(a) THEN a.n < 0 /\ b # a
    ELSE IF IsInf(b) THEN b.n > 0
    ELSE a.n * b.d < b.n * a.d

FLe(a, b) == (~IsNaN(a) /\ a = b) \/ FLt(a, b)

RECURSIVE Pow10(_)
Pow10(e) == IF e = 0 THEN 1 ELSE 10 * Pow10(e - 1)

\* Series.round(digits): to the nearest multiple of 10^-digits, a tie to
\* the even one; NaN and +-inf stay.
Round(x, digits) ==
    IF ~IsFinite(x) THEN x
    ELSE LET sn == x.n * Pow10(digits)
             q  == sn \div x.d
             r2 == 2 * (sn - q * x.d)
         IN  IF r2 < x.d \/ (r2 = x.d /\ q % 2 = 0)
             THEN Num(q, Pow10(digits))
             ELSE Num(q + 1, Pow10(digits))

(***************************************************************************)
(* Series reductions (pandas skips NaN in every one of them)               *)
(***************************************************************************)
DropNa(s) == SelectSeq(s, LAMBDA x : ~IsNaN(x))

SortValues(s) == SortSeq(s, FLt)

RECURSIVE Sum(_)
\* Series.sum(): the sum of the non-NaN values, 0.0 when there is none.
Sum(s) ==
    IF s = <<>> THEN F(0)
    ELSE IF IsNaN(Head(s)) THEN Sum(Tail(s))
    ELSE FAdd(Head(s), Sum(Tail(s)))

\* Series.mean(): NaN when every value is NaN.
Mean(s) ==
    IF DropNa(s) = <<>> THEN NaN ELSE FDiv(Sum(s), F(Len(DropNa(s))))

\* Series.median(): the middle value of the sorted non-NaN values, the
\* mean of the two middle ones for an even count, NaN for none.
Median(s) ==
    LET v == SortValues(DropNa(s))
        n == Len(v)
    IN  IF n = 0 THEN NaN
        ELSE IF n % 2 = 1 THEN v[(n + 1) \div 2]
        ELSE FDiv(FAdd(v[n \div 2], v[n \div 2 + 1]), F(2))

\* Series.quantile(qn/qd), interpolation="linear": position (n-1)*q in the
\* sorted non-NaN values, interpolated between its two neighbours.
Quantile(s, qn, qd) ==
    LET v   == SortValues(DropNa(s))
        n   == Len(v)
        pos == (n - 1) * qn
        lo  == pos \div qd
        rem == pos % qd
    IN  IF n = 0 THEN NaN
        ELSE IF rem = 0 THEN v[lo + 1]
        ELSE FAdd(v[lo + 1], FMul(Num(rem, qd), FSub(v[lo + 2], v[lo + 1])))

\* Series.clip(upper=cap): NaN stays NaN, a NaN threshold clips nothing.
Clip(x, cap) == IF FLt(cap, x) THEN cap ELSE x

\* The column `name` of frame `d`, as a sequence.
Col(d, name) == [i \in 1..Len(d) |-> d[i][name]]

(***************************************************************************)
(* Timestamps and calendar periods.  An order_date is a whole number of    *)
(* hours since midnight of 1 January of EpochYear, the first day of the    *)
(* data set; a monthly Period is its pandas ordinal, months since 1970-01. *)
(***************************************************************************)
EpochYear == 2022

IsLeap(y) == y % 4 = 0 /\ (y % 100 # 0 \/ y % 400 = 0)

DaysInMonth(y, m) ==
    IF m = 2 THEN (IF IsLeap(y) THEN 29 ELSE 28)
    ELSE IF m \in {4, 6, 9, 11} THEN 30 ELSE 31

RECURSIVE CivilFrom(_, _, _)
\* The calendar date `days` days after the first of month m of year y.
CivilFrom(days, y, m) ==
    IF days < DaysInMonth(y, m) THEN [year |-> y, month |-> m, day |-> days + 1]
    ELSE CivilFrom(days - DaysInMonth(y, m),
                   IF m = 12 THEN y + 1 ELSE y, IF m = 12 THEN 1 ELSE m + 1)

Civil(ts) == CivilFrom(ts \div 24, EpochYear, 1)

\* Series.dt.to_period("M")
ToPeriodM(ts) == (Civil(ts).year - 1970) * 12 + (Civil(ts).month - 1)

\* Series.dt.to_period("Q").astype(str): "<year>Q<1-4>"
ToQuarterStr(ts) ==
    ToString(Civil(ts).year) \o "Q" \o ToString((Civil(ts).month - 1) \div 3 + 1)

\* Series.dt.dayofweek, Monday = 0; 1 January 2022 was a Saturday.
DayOfWeek(ts) == (5 + ts \div 24) % 7

DayName(ts) ==
    <<"Monday", "Tuesday", "Wednesday", "Thursday", "Friday", "Saturday",
      "Sunday">>[DayOfWeek(ts) + 1]

RECURSIVE DaysBefore(_, _, _, _)
\* Days from the first of month m0 of year y0 to the first of month m of y.
DaysBefore(y, m, y0, m0) ==
    IF y = y0 /\ m = m0 THEN 0
    ELSE DaysInMonth(y0, m0)
         + DaysBefore(y, m, IF m0 = 12 THEN y0 + 1 ELSE y0,
                      IF m0 = 12 THEN 1 ELSE m0 + 1)

\* PeriodIndex.to_timestamp(): the first instant of the month.
ToTimestamp(p) == 24 * DaysBefore(1970 + (p \div 12), (p % 12) + 1, EpochYear, 1)

\* Timedelta.days
Days(td) == td \div 24

(***************************************************************************)
(* State                                                                   *)
(***************************************************************************)
VARIABLES
    pc,             \* the section of the script that runs next
    raised,         \* the exception that ended the script, "" for none
    raw,            \* history: df as it was loaded (the script keeps no copy)
    df,             \* the order frame, a sequence of rows
    missing_df,     \* 2.1: per audited column, null count and percentage
    dupe_count,     \* 2.2
    lower, upper,   \* 2.6: IQR bounds
    outliers,       \* 2.6: number of rows of the outlier frame
    cap_99,         \* 2.6
    stats,          \* 3: describe() of the derived ratio columns
    monthly,        \* 5: the monthly frame
    snapshot_date,  \* 6
    rfm             \* 6: the per-customer frame

vars == <<pc, raised, raw, df, missing_df, dupe_count, lower, upper, outliers,
          cap_99, stats, monthly, snapshot_date, rfm>>

\* One row of the frame built in section 1.  The columns channel,
\* customer_segment, region, payment_method, units_sold and returned are
\* read only by the charts and the printed report and are left out.
Order(id, date, cust, cat, rev, disc, spend) ==
    [order_id |-> id, order_date |-> date, customer_id |-> cust,
     category |-> cat, revenue |-> rev, discount_pct |-> disc,
     marketing_spend |-> spend]

\* The state after section 1 has built df from the records in `input`.
Loaded(input) ==
    /\ pc = "audit"
    /\ raised = ""
    /\ raw = input
    /\ df = input
    /\ missing_df = <<>>
    /\ dupe_count = 0
    /\ lower = NaN
    /\ upper = NaN
    /\ outliers = 0
    /\ cap_99 = NaN
    /\ stats = <<>>
    /\ monthly = <<>>
    /\ snapshot_date = 0
    /\ rfm = <<>>

(***************************************************************************)
(* Section 2: data cleaning and quality checks                             *)
(***************************************************************************)
\* DataFrame.isnull() on one cell: NaN is null, text is not.
IsNull(x) == IsNaN(x)

NullCount(d, name) == Cardinality({i \in 1..Len(d) : IsNull(d[i][name])})

\* 2.1: the missing-value audit; df is only read.
MissingValueAudit ==
    /\ pc = "audit"
    /\ missing_df' =
         [c \in {"revenue", "discount_pct"} |->
            [Missing |-> NullCount(df, c),
             Missing_pct |-> Round(FMul(Num(NullCount(df, c), Len(df)), F(100)), 2)]]
    /\ pc' = "dupes"
    /\ UNCHANGED <<raised, raw, df, dupe_count, lower, upper, outliers, cap_99,
                   stats, monthly, snapshot_date, rfm>>

\* df.duplicated(subset=["order_id"]): row i repeats an earlier order_id.
Duplicated(d, i) == \E j \in 1..(i - 1) : d[j].order_id = d[i].order_id

\* 2.2: the duplicate check counts the repeated order_ids; df is only read.
DuplicateCheck ==
    /\ pc = "dupes"
    /\ dupe_count' = Cardinality({i \in 1..Len(df) : Duplicated(df, i)})
    /\ pc' = "dtypes"
    /\ UNCHANGED <<raised, raw, df, missing_df, lower, upper, outliers, cap_99,
                   stats, monthly, snapshot_date, rfm>>

\* pd.to_numeric(errors="coerce") on one cell: a number stays, text that
\* is a numeral is parsed, any other text becomes NaN.
ToNumeric(x) ==
    IF x.k # "str" THEN x
    ELSE IF x.d = 0 THEN NaN
    ELSE [k |-> "num", n |-> x.n, d |-> x.d]

\* 2.3: fix dtypes (order_date is datetime64 already: to_datetime keeps it).
FixDtypes ==
    /\ pc = "dtypes"
    /\ df' = [i \in 1..Len(df) |->
                [df[i] EXCEPT !.revenue = ToNumeric(df[i].revenue),
                              !.discount_pct = ToNumeric(df[i].discount_pct)]]
    /\ pc' = "impute"
    /\ UNCHANGED <<raised, raw, missing_df, dupe_count, lower, upper, outliers,
                   cap_99, stats, monthly, snapshot_date, rfm>>

\* Series.fillna(value)
FillNa(x, value) == IF IsNaN(x) THEN value ELSE x

\* Mutant: the median of the revenue of all rows, whatever their category.
GlobalMedianRevenue(d, i) == Median(Col(d, "revenue"))

\* df.groupby("category")["revenue"].transform("median") at row i: the
\* median of the revenue of the rows of d that share row i's category.
MedianRevenueByCat(d, i) ==
    Median(Col(SelectSeq(d, LAMBDA r : r.category = d[i].category), "revenue"))

\* df["discount_pct"].median()
MedianDiscount(d) == Median(Col(d, "discount_pct"))

\* 2.4: impute; both medians are taken from df before any value is filled.
ImputeMissing ==
    /\ pc = "impute"
    /\ df' = [i \in 1..Len(df) |->
                [df[i] EXCEPT
                   !.revenue = FillNa(df[i].revenue, MedianRevenueByCat(df, i)),
                   !.discount_pct = FillNa(df[i].discount_pct, MedianDiscount(df))]]
    /\ pc' = "derive"
    /\ UNCHANGED <<raised, raw, missing_df, dupe_count, lower, upper, outliers,
                   cap_99, stats, monthly, snapshot_date, rfm>>

\* revenue * (1 - discount_pct / 100), rounded to 2 places
OrderValue(r) ==
    Round(FMul(r.revenue, FSub(F(1), FDiv(r.discount_pct, F(100)))), 2)

\* (order_value - marketing_spend) / order_value * 100, rounded to 2 places
ProfitMargin(ov, spend) == Round(FMul(FDiv(FSub(ov, spend), ov), F(100)), 2)

\* order_value / marketing_spend, rounded to 2 places
Roi(ov, spend) == Round(FDiv(ov, spend), 2)

\* 2.5: derived columns, each a function of the row alone.
DerivedColumns ==
    /\ pc = "derive"
    /\ df' = [i \in 1..Len(df) |->
                df[i] @@
                [order_value   |-> OrderValue(df[i]),
                 profit_margin |-> ProfitMargin(OrderValue(df[i]), df[i].marketing_spend),
                 year          |-> Civil(df[i].order_date).year,
                 month         |-> Civil(df[i].order_date).month,
                 quarter       |-> ToQuarterStr(df[i].order_date),
                 month_year    |-> ToPeriodM(df[i].order_date),
                 day_of_week   |-> DayName(df[i].order_date),
                 is_weekend    |-> DayOfWeek(df[i].order_date) >= 5,
                 roi           |-> Roi(OrderValue(df[i]), df[i].marketing_spend)]]
    /\ pc' = "outliers"
    /\ UNCHANGED <<raised, raw, missing_df, dupe_count, lower, upper, outliers,
                   cap_99, stats, monthly, snapshot_date, rfm>>

\* Q1 - 1.5 * IQR and Q3 + 1.5 * IQR of a revenue column
LowerBound(rev) ==
    FSub(Quantile(rev, 1, 4),
         FMul(Num(3, 2), FSub(Quantile(rev, 3, 4), Quantile(rev, 1, 4))))

UpperBound(rev) ==
    FAdd(Quantile(rev, 3, 4),
         FMul(Num(3, 2), FSub(Quantile(rev, 3, 4), Quantile(rev, 1, 4))))

\* Mutant: the cap is also written back to revenue.
CapRevenueInPlace(d, cap) ==
    [i \in 1..Len(d) |->
       [d[i] EXCEPT !.revenue = Clip(d[i].revenue, cap)]
       @@ [revenue_capped |-> Clip(d[i].revenue, cap)]]

\* df["revenue_capped"] = df["revenue"].clip(upper=cap)
CapRevenue(d, cap) ==
    [i \in 1..Len(d) |-> d[i] @@ [revenue_capped |-> Clip(d[i].revenue, cap)]]

\* 2.6: outlier detection; the outlier rows are counted, and the capped
\* revenue goes into a column of its own.
OutlierDetection ==
    /\ pc = "outliers"
    /\ lower' = LowerBound(Col(df, "revenue"))
    /\ upper' = UpperBound(Col(df, "revenue"))
    /\ outliers' = Len(SelectSeq(df, LAMBDA r : FLt(r.revenue, lower') \/ FLt(upper', r.revenue)))
    /\ cap_99' = Quantile(Col(df, "revenue"), 99, 100)
    /\ df' = CapRevenue(df, cap_99')
    /\ pc' = "describe"
    /\ UNCHANGED <<raised, raw, missing_df, dupe_count, stats, monthly,
                   snapshot_date, rfm>>

(***************************************************************************)
(* Section 3: descriptive statistics                                       *)
(***************************************************************************)
\* describe() of one column: the count of non-NaN values and their mean
\* (+-inf is a value like any other).  The other statistics of describe(),
\* and skew() and kurtosis(), are only printed.
Describe(col) == [count |-> Len(DropNa(col)), mean |-> Mean(col)]

DescriptiveStats ==
    /\ pc = "describe"
    /\ stats' = [c \in {"revenue", "order_value", "marketing_spend",
                        "discount_pct", "profit_margin", "roi"} |->
                   Describe(Col(df, c))]
    /\ pc' = "monthly"
    /\ UNCHANGED <<raised, raw, df, missing_df, dupe_count, lower, upper,
                   outliers, cap_99, monthly, snapshot_date, rfm>>

(***************************************************************************)
(* Section 5: time-series aggregation                                      *)
(***************************************************************************)
RollingWindow == 3
YoYPeriods == 12

Min(S) == CHOOSE x \in S : \A y \in S : x <= y
Max(S) == CHOOSE x \in S : \A y \in S : y <= x

RECURSIVE SortedKeys(_)
\* The group keys of a groupby (sort=True): the distinct keys, ascending.
SortedKeys(S) ==
    IF S = {} THEN <<>> ELSE <<Min(S)>> \o SortedKeys(S \ {Min(S)})

RECURSIVE Distinct(_)
\* The values of s, each once, in order of first appearance.
Distinct(s) ==
    IF s = <<>> THEN <<>>
    ELSE <<Head(s)>> \o Distinct(SelectSeq(Tail(s), LAMBDA x : x # Head(s)))

\* Mutant: the groups come in order of first appearance (sort=False).
GroupByMonthUnsorted(d) ==
    LET keys == Distinct(Col(d, "month_year"))
    IN  [g \in 1..Len(keys) |->
           LET grp == SelectSeq(d, LAMBDA r : r.month_year = keys[g])
           IN  [month_year      |-> keys[g],
                revenue         |-> Sum(Col(grp, "order_value")),
                orders          |-> Len(grp),
                new_customers   |-> Cardinality({grp[i].customer_id : i \in 1..Len(grp)}),
                avg_order_value |-> Mean(Col(grp, "order_value"))]]

\* df.groupby("month_year").agg(...).reset_index(): one row per month that
\* occurs in df, in ascending order of the month.
GroupByMonth(d) ==
    LET keys == SortedKeys({d[i].month_year : i \in 1..Len(d)})
    IN  [g \in 1..Len(keys) |->
           LET grp == SelectSeq(d, LAMBDA r : r.month_year = keys[g])
           IN  [month_year      |-> keys[g],
                revenue         |-> Sum(Col(grp, "order_value")),
                orders          |-> Len(grp),
                new_customers   |-> Cardinality({grp[i].customer_id : i \in 1..Len(grp)}),
                avg_order_value |-> Mean(Col(grp, "order_value"))]]

\* Mutant: the mean of the values the window holds so far (min_periods=1).
RollingMeanPartial(s, i, w) ==
    Mean(SubSeq(s, IF i < w THEN 1 ELSE i - w + 1, i))

\* Series.rolling(w).mean() at index i (from 1): NaN until the window
\* holds w values, and NaN when one of them is NaN.
RollingMean(s, i, w) ==
    IF i < w \/ \E j \in (i - w + 1)..i : IsNaN(s[j]) THEN NaN
    ELSE FDiv(Sum(SubSeq(s, i - w + 1, i)), F(w))

\* Series.pct_change(p) at index i (from 1): s[i] / s[i-p] - 1, NaN for the
\* first p rows (the monthly revenue holds no NaN to forward-fill).
PctChange(s, i, p) ==
    IF i <= p THEN NaN ELSE FSub(FDiv(s[i], s[i - p]), F(1))

MonthlyAggregation ==
    /\ pc = "monthly"
    /\ monthly' =
         LET m == GroupByMonth(df)
         IN  [i \in 1..Len(m) |->
                m[i] @@
                [month_year_dt |-> ToTimestamp(m[i].month_year),
                 revenue_3m_ma |-> RollingMean(Col(m, "revenue"), i, RollingWindow),
                 yoy_growth    |-> Round(PctChange(Col(m, "revenue"), i, YoYPeriods), 4)]]
    /\ pc' = "rfm"
    /\ UNCHANGED <<raised, raw, df, missing_df, dupe_count, lower, upper,
                   outliers, cap_99, stats, snapshot_date, rfm>>

(***************************************************************************)
(* Section 6: customer segmentation                                        *)
(***************************************************************************)
\* Mutant: the snapshot date is taken per customer, not over all orders.
GroupByCustomerLocal(d, snapshot) ==
    LET keys == SortedKeys({d[i].customer_id : i \in 1..Len(d)})
    IN  [g \in 1..Len(keys) |->
           LET grp == SelectSeq(d, LAMBDA r : r.customer_id = keys[g])
           IN  [customer_id |-> keys[g],
                recency     |-> Days(Max({grp[i].order_date : i \in 1..Len(grp)})
                                     - Max({grp[i].order_date : i \in 1..Len(grp)})),
                frequency   |-> Len(grp),
                monetary    |-> Sum(Col(grp, "order_value"))]]

\* df.groupby("customer_id").agg(...).reset_index(): one row per customer,
\* in ascending order of customer_id.
GroupByCustomer(d, snapshot) ==
    LET keys == SortedKeys({d[i].customer_id : i \in 1..Len(d)})
    IN  [g \in 1..Len(keys) |->
           LET grp == SelectSeq(d, LAMBDA r : r.customer_id = keys[g])
           IN  [customer_id |-> keys[g],
                recency     |-> Days(snapshot - Max({grp[i].order_date : i \in 1..Len(grp)})),
                frequency   |-> Len(grp),
                monetary    |-> Sum(Col(grp, "order_value"))]]

RfmAggregation ==
    /\ pc = "rfm"
    /\ snapshot_date' = Max({df[i].order_date : i \in 1..Len(df)})
    /\ rfm' = GroupByCustomer(df, snapshot_date')
    /\ pc' = "r_score"
    /\ UNCHANGED <<raised, raw, df, missing_df, dupe_count, lower, upper,
                   outliers, cap_99, stats, monthly>>

\* np.linspace(a, b, n + 1), as floats
Linspace(a, b, n) == [k \in 1..(n + 1) |-> FAdd(a, FMul(FSub(b, a), Num(k - 1, n)))]

\* The bin edges pd.qcut(x, q) takes: the quantiles 0, 1/q, ..., 1 of x.
QcutBins(x, q) == [k \in 1..(q + 1) |-> Quantile(x, k - 1, q)]

\* The bin edges pd.cut(x, bins=n, right=True) takes: n equal-width bins
\* over [min, max], the lowest edge moved down by 0.1% of the range; a
\* constant x gets the range widened by 0.1% of its value on both sides.
CutBins(x, n) ==
    LET v  == SortValues(DropNa(x))
        mn == v[1]
        mx == v[Len(v)]
        Pad(e) == IF e.n = 0 THEN Num(1, 1000)
                  ELSE FMul(Num(1, 1000), [e EXCEPT !.n = Abs(e.n)])
    IN  IF mn = mx
        THEN Linspace(FSub(mn, Pad(mn)), FAdd(mx, Pad(mx)), n)
        ELSE [Linspace(mn, mx, n) EXCEPT
                ![1] = FSub(mn, FMul(FSub(mx, mn), Num(1, 1000)))]

\* _bins_to_cuts raises ValueError("Bin edges must be unique") for these.
DuplicateEdges(bins) == \E i, j \in 1..Len(bins) : i < j /\ bins[i] = bins[j]

\* The bin of value v: bins.searchsorted(v, side="left"), and with
\* include_lowest the lowest edge itself belongs to bin 1.
BinOf(bins, v) ==
    IF v = bins[1] THEN 1
    ELSE Cardinality({k \in 1..Len(bins) : FLt(bins[k], v)})

\* Recency labelled like the other two measures, the largest recency
\* scoring highest.
RScoreLabelsAscending == <<1, 2, 3, 4>>

RScoreLabels == <<4, 3, 2, 1>>
AscendingLabels == <<1, 2, 3, 4>>

IntCol(d, name) == [i \in 1..Len(d) |-> F(d[i][name])]

\* Recency scored per half of the customer rows, each customer against
\* the quartiles of its own half only.
RecencyScorePartitioned ==
    /\ pc = "r_score"
    /\ LET all     == IntCol(rfm, "recency")
           h       == Len(rfm) \div 2
           part(i) == IF i <= h THEN SubSeq(all, 1, h) ELSE SubSeq(all, h + 1, Len(rfm))
           bins(i) == QcutBins(part(i), 4)
       IN  IF \E i \in 1..Len(rfm) : DuplicateEdges(bins(i))
           THEN /\ raised' = "ValueError"
                /\ pc' = "done"
                /\ rfm' = rfm
           ELSE /\ rfm' = [i \in 1..Len(rfm) |->
                             rfm[i] @@ [r_score |-> RScoreLabels[BinOf(bins(i), F(rfm[i].recency))]]]
                /\ pc' = "f_score"
                /\ raised' = raised
    /\ UNCHANGED <<raw, df, missing_df, dupe_count, lower, upper, outliers,
                   cap_99, stats, monthly, snapshot_date>>

\* rfm["r_score"] = pd.qcut(rfm["recency"], q=4, labels=[4, 3, 2, 1])
RecencyScore ==
    /\ pc = "r_score"
    /\ LET bins == QcutBins(IntCol(rfm, "recency"), 4)
       IN  IF DuplicateEdges(bins)
           THEN /\ raised' = "ValueError"
                /\ pc' = "done"
                /\ rfm' = rfm
           ELSE /\ rfm' = [i \in 1..Len(rfm) |->
                             rfm[i] @@ [r_score |-> RScoreLabels[BinOf(bins, F(rfm[i].recency))]]]
                /\ pc' = "f_score"
                /\ raised' = raised
    /\ UNCHANGED <<raw, df, missing_df, dupe_count, lower, upper, outliers,
                   cap_99, stats, monthly, snapshot_date>>

\* rfm["f_score"] = pd.cut(rfm["frequency"], bins=4, labels=[1, 2, 3, 4],
\*                         include_lowest=True)
FrequencyScore ==
    /\ pc = "f_score"
    /\ LET bins == CutBins(IntCol(rfm, "frequency"), 4)
       IN  rfm' = [i \in 1..Len(rfm) |->
                     rfm[i] @@ [f_score |-> AscendingLabels[BinOf(bins, F(rfm[i].frequency))]]]
    /\ pc' = "m_score"
    /\ UNCHANGED <<raised, raw, df, missing_df, dupe_count, lower, upper,
                   outliers, cap_99, stats, monthly, snapshot_date>>

\* rfm["m_score"] = pd.qcut(rfm["monetary"], q=4, labels=[1, 2, 3, 4])
MonetaryScore ==
    /\ pc = "m_score"
    /\ LET bins == QcutBins(Col(rfm, "monetary"), 4)
       IN  IF DuplicateEdges(bins)
           THEN /\ raised' = "ValueError"
                /\ pc' = "done"
                /\ rfm' = rfm
           ELSE /\ rfm' = [i \in 1..Len(rfm) |->
                             rfm[i] @@ [m_score |-> AscendingLabels[BinOf(bins, rfm[i].monetary)]]]
                /\ pc' = "segment"
                /\ raised' = raised
    /\ UNCHANGED <<raw, df, missing_df, dupe_count, lower, upper, outliers,
                   cap_99, stats, monthly, snapshot_date>>

\* The thresholds taken as exclusive lower bounds.
rfm_label_exclusive(score) ==
    IF score > 10 THEN "Champions"
    ELSE IF score > 8 THEN "Loyal"
    ELSE IF score > 6 THEN "Potential Loyal"
    ELSE IF score > 4 THEN "At Risk"
    ELSE "Lost"

rfm_label(score) ==
    IF score >= 10 THEN "Champions"
    ELSE IF score >= 8 THEN "Loyal"
    ELSE IF score >= 6 THEN "Potential Loyal"
    ELSE IF score >= 4 THEN "At Risk"
    ELSE "Lost"

\* rfm["rfm_score"] and rfm["rfm_segment"]
RfmSegment ==
    /\ pc = "segment"
    /\ rfm' = [i \in 1..Len(rfm) |->
                 LET score == rfm[i].r_score + rfm[i].f_score + rfm[i].m_score
                 IN  rfm[i] @@ [rfm_score |-> score, rfm_segment |-> rfm_label(score)]]
    /\ pc' = "done"
    /\ UNCHANGED <<raised, raw, df, missing_df, dupe_count, lower, upper,
                   outliers, cap_99, stats, monthly, snapshot_date>>

Next ==
    \/ MissingValueAudit
    \/ DuplicateCheck
    \/ FixDtypes
    \/ ImputeMissing
    \/ DerivedColumns
    \/ OutlierDetection
    \/ DescriptiveStats
    \/ MonthlyAggregation
    \/ RfmAggregation
    \/ RecencyScore
    \/ FrequencyScore
    \/ MonetaryScore
    \/ RfmSegment

(***************************************************************************)
(* Inputs.  The script runs on whatever records section 1 puts into df;    *)
(* the families below are the record sequences the model runs it on.       *)
(***************************************************************************)
MaxImpute == 4
MaxOrders == 3
MaxMonths == 14

\* Row i of an input in which only some columns vary: its own order_id
\* and customer, one order a day at noon, 10% discount, 50 spent.
Noon(day) == 24 * (day - 1) + 12
OrderId(i) == "ORD00000" \o ToString(i)
Plain(i) == Order(OrderId(i), Noon(i), i, "Books", F(600), F(10), F(50))

\* Every sequence of 1..max rows whose row i is Row(i, c) for a choice c.
Family(max, Choices, Row(_, _)) ==
    UNION { { [i \in 1..n |-> Row(i, c[i])] : c \in [1..n -> Choices] }
            : n \in 1..max }

\* Orders of two categories whose revenue is missing or not.
ImputeInputs ==
    Family(MaxImpute, {"Books", "Beauty"} \X {NaN, F(600), F(800)},
           LAMBDA i, c : [Plain(i) EXCEPT !.category = c[1], !.revenue = c[2]])

\* Orders whose revenue arrives as text, a numeral or not.
RevenueTextInputs ==
    Family(MaxOrders, {Text(NaN), Text(F(500)), F(300)},
           LAMBDA i, c : [Plain(i) EXCEPT !.revenue = c])

\* Orders whose discount_pct arrives missing or as text.
DiscountInputs ==
    Family(MaxOrders, {NaN, Text(NaN), Text(F(25)), F(20)},
           LAMBDA i, c : [Plain(i) EXCEPT !.discount_pct = c])

\* Orders of revenue 500 with or without a full discount and with or
\* without marketing spend.
RatioInputs ==
    Family(MaxOrders, {F(0), F(100)} \X {F(0), F(50)},
           LAMBDA i, c : [Plain(i) EXCEPT !.revenue = F(500), !.discount_pct = c[1],
                                          !.marketing_spend = c[2]])

\* Orders that may repeat an order_id.
DuplicateInputs ==
    Family(MaxOrders, {1, 2} \X {F(600), F(800)},
           LAMBDA i, c : [Plain(i) EXCEPT !.order_id = OrderId(c[1]), !.revenue = c[2]])

\* Orders in any order of date: the last hour of January 2022, the first
\* hour of February 2022, a day in April 2022, and a day in January 2023.
CalendarInputs ==
    Family(MaxOrders, {24 * 31 - 1, 24 * 31, Noon(100), Noon(375)},
           LAMBDA i, c : [Plain(i) EXCEPT !.order_date = c])

\* One order in the middle of each of the first n months, n = 13..MaxMonths,
\* oldest or newest first; the revenue of the first two and of the months
\* from the 13th on varies and may be 0.
MidMonth(m) == ToTimestamp((EpochYear - 1970) * 12 + (m - 1)) + Noon(15)

SeriesInputs ==
    UNION { { [i \in 1..n |->
                 LET m == IF newestFirst THEN n + 1 - i ELSE i
                 IN  [Plain(m) EXCEPT
                        !.order_date = MidMonth(m),
                        !.discount_pct = F(0),
                        !.revenue = IF m \in {1, 2, 13, 14} THEN c[m]
                                    ELSE F(100 * ((m % 3) + 1))]]
              : c \in [{1, 2, 13, 14} -> {F(0), F(100), F(300)}],
                newestFirst \in BOOLEAN }
            : n \in 13..MaxMonths }

\* Customer 7 places four undiscounted orders of 100, 200, 300 and 400 over
\* 40 days; up to MaxOrders further orders of customers 7 and 9 precede
\* them in the input, dated weeks before, hours after or days after the
\* last one.
ScenarioOrders ==
    [j \in 1..4 |->
       [Plain(j + MaxOrders) EXCEPT
          !.order_date = Noon(<<1, 11, 26, 41>>[j]), !.customer_id = 7,
          !.revenue = F(100 * j), !.discount_pct = F(0)]]

RfmInputs ==
    {ScenarioOrders} \cup
    { other \o ScenarioOrders :
        other \in Family(MaxOrders, {7, 9} \X {Noon(5), Noon(41) + 6, Noon(45)},
                         LAMBDA i, c : [Plain(i) EXCEPT !.customer_id = c[1],
                                                        !.order_date = c[2],
                                                        !.revenue = F(250)]) }

\* The largest cohort of CohortInputs.
MaxCustomers == 4

\* Cohorts of up to MaxCustomers customers with one undiscounted order each,
\* on one of four days ten days apart and of one of four amounts; two of
\* the choices share a day and two share an amount, so that recency or
\* monetary can tie between customers.
CohortInputs ==
    Family(MaxCustomers,
           { <<1, 100>>, <<11, 300>>, <<21, 200>>, <<31, 400>>, <<11, 200>> },
           LAMBDA i, c : [Plain(i) EXCEPT !.order_date = Noon(c[1]),
                                          !.revenue = F(c[2]),
                                          !.discount_pct = F(0)])

Inputs ==
    ImputeInputs \cup RevenueTextInputs \cup DiscountInputs \cup RatioInputs
    \cup DuplicateInputs \cup CalendarInputs \cup SeriesInputs \cup RfmInputs
    \cup CohortInputs

Init == \E input \in Inputs : Loaded(input)

Spec == Init /\ [][Next]_vars

(***************************************************************************)
(* Properties                                                              *)
(***************************************************************************)
Sections ==
    <<"audit", "dupes", "dtypes", "impute", "derive", "outliers", "describe",
      "monthly", "rfm", "r_score", "f_score", "m_score", "segment", "done">>

Position(section) == CHOOSE i \in 1..Len(Sections) : Sections[i] = section

\* The section named has run.
Past(section) == Position(pc) > Position(section)

\* Sections 2.1 to 2.4 have run: df is the cleaned record set.
Cleaned == Past("impute")

\* The rows of d whose order_id no earlier row has, in the order of d.
RECURSIVE FirstSeen(_, _)
FirstSeen(d, i) ==
    IF i > Len(d) THEN <<>>
    ELSE (IF Duplicated(d, i) THEN <<>> ELSE <<d[i]>>) \o FirstSeen(d, i + 1)

\* The revenue a row enters the imputation with: the raw cell, coerced.
Coerced(i) == ToNumeric(raw[i].revenue)

\* C1: the cleaned record set holds each order_id at most once, and the
\* record kept for a repeated order_id is its first occurrence in the input.
C1_OrderIdsDistinct ==
    Cleaned =>
        /\ \A i, j \in 1..Len(df) : i < j => df[i].order_id # df[j].order_id
        /\ Len(df) = Len(FirstSeen(raw, 1))
        /\ \A i \in 1..Len(df) :
             /\ df[i].order_id = FirstSeen(raw, 1)[i].order_id
             /\ df[i].order_date = FirstSeen(raw, 1)[i].order_date

\* C2: when the cleaning stage has completed without an error, every record
\* has a non-null revenue and a non-null discount_pct.
C2_NoNullsAfterCleaning ==
    (Cleaned /\ raised = "") =>
        \A i \in 1..Len(df) : ~IsNull(df[i].revenue) /\ ~IsNull(df[i].discount_pct)

\* Category c has a record whose revenue is null and none with a revenue.
Unimputable(c) ==
    /\ \E i \in 1..Len(raw) : raw[i].category = c /\ IsNull(raw[i].revenue)
    /\ \A i \in 1..Len(raw) : raw[i].category = c => IsNaN(Coerced(i))

\* C4: when a category has a record with null revenue and none with
\* non-null revenue, the cleaning stage ends in an ImputationImpossibleError;
\* it does not hand on a record set.
C4_ImputationImpossibleRaised ==
    (Cleaned /\ \E i \in 1..Len(raw) : Unimputable(raw[i].category)) =>
        raised = "ImputationImpossibleError"

\* The k-th smallest of the values s (a sequence of finite floats), by rank:
\* fewer than k values lie below it and at least k do not exceed it.
OrderStat(s, k) ==
    LET v == CHOOSE x \in {s[i] : i \in 1..Len(s)} :
               /\ Cardinality({i \in 1..Len(s) : FLt(s[i], x)}) < k
               /\ Cardinality({i \in 1..Len(s) : FLe(s[i], x)}) >= k
    IN  v

\* The revenues category c had before imputation, the missing ones left out.
KnownRevenues(c) ==
    LET idx == SortedKeys({i \in 1..Len(raw) : raw[i].category = c /\ ~IsNaN(Coerced(i))})
    IN  [j \in 1..Len(idx) |-> Coerced(idx[j])]

\* m is the median of the non-empty s: the middle value by rank, or half
\* the sum of the two middle ones.
IsMedian(m, s) ==
    LET n == Len(s)
    IN  IF n % 2 = 1 THEN m = OrderStat(s, (n + 1) \div 2)
        ELSE FMul(F(2), m) = FAdd(OrderStat(s, n \div 2), OrderStat(s, n \div 2 + 1))

\* C3: a record whose revenue is null when imputation starts (null in the
\* input, or text that type coercion could not parse) gets the median of the
\* revenues its category had in the original input, whenever the category
\* had one; every other record keeps the revenue it had.
C3_CategoryMedianImputed ==
    Cleaned =>
        \A i \in 1..Len(df) :
            IF IsNaN(Coerced(i))
            THEN KnownRevenues(raw[i].category) # <<>> =>
                    IsMedian(df[i].revenue, KnownRevenues(raw[i].category))
            ELSE df[i].revenue = Coerced(i)

\* A null revenue was filled with the median of its own category while the
\* other category pulls the median of all known revenues elsewhere.
C3_Witness ==
    /\ Cleaned
    /\ \E i \in 1..Len(df) :
         /\ IsNull(raw[i].revenue)
         /\ Len(KnownRevenues(raw[i].category)) >= 2
         /\ IsFinite(df[i].revenue)
         /\ \E c \in {raw[j].category : j \in 1..Len(raw)} :
              /\ c # raw[i].category
              /\ KnownRevenues(c) # <<>>
              /\ ~IsMedian(df[i].revenue, KnownRevenues(c) \o KnownRevenues(raw[i].category))

\* C5: a derived ratio with a zero denominator is the undefined sentinel
\* (null/NaN), never infinite: roi when marketing_spend = 0, profit_margin
\* when order_value = 0; and no mean over either field is distorted by one.
C5_ZeroDenominatorUndefined ==
    /\ Past("derive") =>
         \A i \in 1..Len(df) :
            /\ df[i].marketing_spend = F(0) => IsNaN(df[i].roi)
            /\ df[i].order_value = F(0) => IsNaN(df[i].profit_margin)
            /\ ~IsInf(df[i].roi) /\ ~IsInf(df[i].profit_margin)
    /\ Past("describe") =>
         /\ stats["roi"].mean =
              Mean(Col(SelectSeq(df, LAMBDA r : r.marketing_spend # F(0)), "roi"))
         /\ stats["profit_margin"].mean =
              Mean(Col(SelectSeq(df, LAMBDA r : r.order_value # F(0)), "profit_margin"))

\* The p-th percentile of the non-NaN values of s by rank, interpolated
\* linearly between the two values around position (n - 1) * p / 100.
Percentile(s, p) ==
    LET v   == DropNa(s)
        n   == Len(v)
        lo  == ((n - 1) * p) \div 100
        rem == ((n - 1) * p) % 100
    IN  IF n = 0 THEN NaN
        ELSE IF rem = 0 THEN OrderStat(v, lo + 1)
        ELSE FAdd(FMul(Num(100 - rem, 100), OrderStat(v, lo + 1)),
                  FMul(Num(rem, 100), OrderStat(v, lo + 2)))

\* The smaller of two floats; NaN when either is NaN.
FMin(a, b) == IF IsNaN(a) \/ IsNaN(b) THEN NaN ELSE IF FLt(b, a) THEN b ELSE a

\* C6: the outlier step keeps every record and every field of it, revenue
\* included, also for records outside the IQR bounds; its one effect on the
\* records is the new field revenue_capped = min(revenue, 99th percentile
\* of revenue).
C6_OutlierStepFrame ==
    [][pc = "outliers" =>
         /\ Len(df') = Len(df)
         /\ \A i \in 1..Len(df) :
              /\ DOMAIN df'[i] = DOMAIN df[i] \cup {"revenue_capped"}
              /\ \A f \in DOMAIN df[i] : df'[i][f] = df[i][f]
              /\ df'[i].revenue_capped =
                   FMin(df[i].revenue, Percentile(Col(df, "revenue"), 99))]_vars

\* The outlier step has run on records one of which lies above the upper
\* IQR bound: it was counted, its revenue_capped is below its revenue, and
\* its revenue is still what the cleaning left.
C6_Witness ==
    /\ Past("outliers")
    /\ outliers > 0
    /\ Len(df) = Len(raw)
    /\ \E i \in 1..Len(df) :
         /\ FLt(upper, df[i].revenue)
         /\ FLt(df[i].revenue_capped, df[i].revenue)
         /\ df[i].revenue = Coerced(i)

\* The year and month of a monthly Period.
PeriodYear(p) == 1970 + (p \div 12)
PeriodMonth(p) == (p % 12) + 1

\* C7: the monthly aggregation emits exactly one MonthlyAggregate for each
\* year-month that has a cleaned order and none for any other (gaps are not
\* filled), in strictly increasing order of the month whatever the order of
\* the input.
C7_OneBucketPerObservedMonth ==
    Past("monthly") =>
        /\ {<<PeriodYear(monthly[g].month_year), PeriodMonth(monthly[g].month_year)>>
              : g \in 1..Len(monthly)}
           = {<<df[i].year, df[i].month>> : i \in 1..Len(df)}
        /\ Len(monthly) = Cardinality({<<df[i].year, df[i].month>> : i \in 1..Len(df)})
        /\ \A i \in 1..Len(df) : \E g \in 1..Len(monthly) :
              /\ ToTimestamp(monthly[g].month_year) <= df[i].order_date
              /\ df[i].order_date < ToTimestamp(monthly[g].month_year + 1)
        /\ \A g \in 1..Len(monthly) :
              monthly[g].orders
                = Cardinality({i \in 1..Len(df) :
                                 /\ df[i].year = PeriodYear(monthly[g].month_year)
                                 /\ df[i].month = PeriodMonth(monthly[g].month_year)})
        /\ \A g, h \in 1..Len(monthly) :
              g < h => monthly[g].month_year < monthly[h].month_year

\* Orders that arrive newest first and leave a month without orders between
\* two months that have some were aggregated.
C7_Witness ==
    /\ Past("monthly")
    /\ Len(monthly) >= 2
    /\ \E g \in 1..(Len(monthly) - 1) :
          monthly[g + 1].month_year > monthly[g].month_year + 1
    /\ \E i, j \in 1..Len(raw) : i < j /\ raw[i].order_date > raw[j].order_date

MonthlyRevenue(i) == monthly[i].revenue

\* C8: in the monthly sequence revenue_3m_ma is undefined (not zero) at
\* indices 0 and 1 and is the mean of the revenue at i-2, i-1 and i from
\* index 2 on; yoy_growth is undefined at every index up to 11.  (Indices
\* here count from 1.)
C8_RollingMeanAndEarlyYoY ==
    Past("monthly") =>
        \A i \in 1..Len(monthly) :
            /\ i <= 2 => IsNaN(monthly[i].revenue_3m_ma)
            /\ i >= 3 =>
                 /\ IsFinite(monthly[i].revenue_3m_ma)
                 /\ FMul(F(3), monthly[i].revenue_3m_ma)
                      = FAdd(FAdd(MonthlyRevenue(i - 2), MonthlyRevenue(i - 1)),
                             MonthlyRevenue(i))
            /\ i <= 12 => IsNaN(monthly[i].yoy_growth)

\* Thirteen months or more were aggregated: the third has a moving average
\* that differs from its own revenue, the thirteenth a defined growth.
C8_Witness ==
    /\ Past("monthly")
    /\ Len(monthly) >= 13
    /\ IsFinite(monthly[3].revenue_3m_ma)
    /\ monthly[3].revenue_3m_ma # monthly[3].revenue
    /\ IsFinite(monthly[13].yoy_growth)
    /\ monthly[13].yoy_growth # F(0)

\* C9: from index 12 on, yoy_growth[i] is (revenue[i] - revenue[i-12]) /
\* revenue[i-12] (to the 4 places the column is rounded to) when
\* revenue[i-12] is not zero, and undefined, not infinite, when it is zero.
C9_YoYGrowthDefinedOrNull ==
    Past("monthly") =>
        \A i \in 13..Len(monthly) :
            IF MonthlyRevenue(i - 12) = F(0)
            THEN IsNaN(monthly[i].yoy_growth)
            ELSE monthly[i].yoy_growth
                   = Round(FDiv(FSub(MonthlyRevenue(i), MonthlyRevenue(i - 12)),
                                MonthlyRevenue(i - 12)), 4)

RECURSIVE SumOver(_, _)
\* The sum of the non-null order_value of the rows of df with index in S.
SumOver(S, d) ==
    IF S = {} THEN F(0)
    ELSE LET i == CHOOSE x \in S : TRUE
         IN  IF IsNaN(d[i].order_value) THEN SumOver(S \ {i}, d)
             ELSE FAdd(d[i].order_value, SumOver(S \ {i}, d))

OrdersOf(c) == {i \in 1..Len(df) : df[i].customer_id = c}

\* t is the latest order_date among the rows with index in S.
IsLatest(t, S) ==
    /\ \E i \in S : df[i].order_date = t
    /\ \A i \in S : df[i].order_date <= t

\* C10: the RFM output has exactly one CustomerRFM per customer_id of the
\* cleaned records; its recency is the whole number of days from that
\* customer's latest order to the one global snapshot date, the latest
\* order_date of all records; its frequency is the number of the customer's
\* orders and its monetary the sum of their order_value.  So whoever placed
\* the latest order has recency 0.
C10_RfmAggregates ==
    Past("rfm") =>
        /\ {rfm[g].customer_id : g \in 1..Len(rfm)}
             = {df[i].customer_id : i \in 1..Len(df)}
        /\ Len(rfm) = Cardinality({df[i].customer_id : i \in 1..Len(df)})
        /\ IsLatest(snapshot_date, 1..Len(df))
        /\ \A g \in 1..Len(rfm) :
             LET mine == OrdersOf(rfm[g].customer_id)
             IN  /\ rfm[g].frequency = Cardinality(mine)
                 /\ rfm[g].monetary = SumOver(mine, df)
                 /\ rfm[g].recency >= 0
                 /\ \E t \in {df[i].order_date : i \in mine} :
                      /\ IsLatest(t, mine)
                      /\ 24 * rfm[g].recency <= snapshot_date - t
                      /\ snapshot_date - t < 24 * (rfm[g].recency + 1)
                 /\ IsLatest(snapshot_date, mine) => rfm[g].recency = 0

\* Customer 7 placed exactly the four orders of 100, 200, 300 and 400 and
\* the latest order of all: frequency 4, monetary 1000, recency 0, next to a
\* customer whose last order is days older.
C10_Witness ==
    /\ Past("rfm")
    /\ {df[i].order_value : i \in OrdersOf(7)} = {F(100), F(200), F(300), F(400)}
    /\ \E g, h \in 1..Len(rfm) :
         /\ rfm[g].customer_id = 7
         /\ rfm[g].frequency = 4
         /\ rfm[g].monetary = F(1000)
         /\ rfm[g].recency = 0
         /\ rfm[h].customer_id = 9
         /\ rfm[h].recency > 0

\* Every row of the RFM output has the column named.
HasColumn(name) ==
    /\ Len(rfm) > 0
    /\ \A g \in 1..Len(rfm) : name \in DOMAIN rfm[g]

\* The quantile bucket of v among the values s: the first k in 1..4 with v
\* at or below the (25 * k)-th percentile of s; the lowest value is in
\* bucket 1.
Bucket(s, v) ==
    CHOOSE k \in 1..4 :
        /\ FLe(v, Percentile(s, 25 * k))
        /\ \A j \in 1..(k - 1) : FLt(Percentile(s, 25 * j), v)

Recencies == [g \in 1..Len(rfm) |-> F(rfm[g].recency)]
Monetaries == [g \in 1..Len(rfm) |-> rfm[g].monetary]

\* C11: when scoring succeeds, customers never score lower on recency for
\* being more recent, nor lower on monetary for spending more: for every
\* pair a, b, recency(a) <= recency(b) gives r_score(a) >= r_score(b) and
\* monetary(a) <= monetary(b) gives m_score(a) <= m_score(b).  The quantile
\* buckets 1, 2, 3, 4 of ascending recency are scored 4, 3, 2, 1 and those
\* of ascending monetary 1, 2, 3, 4.
C11_ScoresMonotone ==
    (pc \in {"segment", "done"} /\ raised = "") =>
        /\ HasColumn("r_score") /\ HasColumn("m_score")
        /\ \A a, b \in 1..Len(rfm) :
             /\ rfm[a].recency <= rfm[b].recency => rfm[a].r_score >= rfm[b].r_score
             /\ FLe(rfm[a].monetary, rfm[b].monetary) => rfm[a].m_score <= rfm[b].m_score
        /\ \A a \in 1..Len(rfm) :
             /\ rfm[a].r_score = 5 - Bucket(Recencies, F(rfm[a].recency))
             /\ rfm[a].m_score = Bucket(Monetaries, rfm[a].monetary)

\* Four customers scored 4, 3, 2, 1 on recency and 1, 2, 3, 4 on monetary
\* in some order, one of them both more recent and the smaller spender
\* than another.
C11_Witness ==
    /\ pc = "done" /\ raised = ""
    /\ Len(rfm) = 4
    /\ {rfm[g].r_score : g \in 1..4} = 1..4
    /\ {rfm[g].m_score : g \in 1..4} = 1..4
    /\ \E a, b \in 1..4 :
         /\ rfm[a].recency < rfm[b].recency /\ rfm[a].r_score > rfm[b].r_score
         /\ FLt(rfm[a].monetary, rfm[b].monetary) /\ rfm[a].m_score < rfm[b].m_score

\* C12: every customer of the RFM output has r_score, f_score and m_score
\* in 1..4, rfm_score their sum, in 3..12, and the segment of that sum:
\* "Champions" from 10, "Loyal" for 8 and 9, "Potential Loyal" for 6 and 7,
\* "At Risk" for 4 and 5, "Lost" below 4, which only a sum of 3 is.
C12_ScoresAndSegments ==
    (pc = "done" /\ raised = "") =>
        \A g \in 1..Len(rfm) :
            LET c == rfm[g]
            IN  /\ c.r_score \in 1..4
                /\ c.f_score \in 1..4
                /\ c.m_score \in 1..4
                /\ c.rfm_score = c.r_score + c.f_score + c.m_score
                /\ c.rfm_score \in 3..12
                /\ c.rfm_segment = "Champions" <=> c.rfm_score >= 10
                /\ c.rfm_segment = "Loyal" <=> c.rfm_score \in {8, 9}
                /\ c.rfm_segment = "Potential Loyal" <=> c.rfm_score \in {6, 7}
                /\ c.rfm_segment = "At Risk" <=> c.rfm_score \in {4, 5}
                /\ c.rfm_segment = "Lost" <=> c.rfm_score = 3
                /\ c.rfm_segment \in {"Champions", "Loyal", "Potential Loyal",
                                      "At Risk", "Lost"}

\* Customer 7, with the four orders of 100 to 400, is the most recent, the
\* most frequent and the biggest spender of the cohort: 4, 4, 4, sum 12,
\* "Champions"; the other customer scores 1, 1, 1, sum 3, "Lost".
C12_Witness ==
    /\ pc = "done" /\ raised = ""
    /\ \E g, h \in 1..Len(rfm) :
         /\ rfm[g].customer_id = 7
         /\ rfm[g].frequency = 4 /\ rfm[g].monetary = F(1000) /\ rfm[g].recency = 0
         /\ rfm[g].r_score = 4 /\ rfm[g].f_score = 4 /\ rfm[g].m_score = 4
         /\ rfm[g].rfm_score = 12 /\ rfm[g].rfm_segment = "Champions"
         /\ rfm[h].rfm_score = 3 /\ rfm[h].rfm_segment = "Lost"

\* The quartile boundaries of s, minimum and maximum included, are not all
\* distinct: s does not split into 4 quantile buckets.
Degenerate(s) ==
    \E j, k \in 0..4 : j < k /\ Percentile(s, 25 * j) = Percentile(s, 25 * k)

\* No row of the RFM output has the column named.
LacksColumn(name) == \A g \in 1..Len(rfm) : name \notin DOMAIN rfm[g]

\* C13: when the recency values or the monetary values of the customers do
\* not have distinct quartile boundaries, the RFM run ends in an error and
\* no customer has an r_score, m_score, rfm_score or rfm_segment.
C13_DegenerateRaisesUnscored ==
    (pc = "done" /\ (Degenerate(Recencies) \/ Degenerate(Monetaries))) =>
        /\ raised # ""
        /\ LacksColumn("r_score")
        /\ LacksColumn("m_score")
        /\ LacksColumn("rfm_score")
        /\ LacksColumn("rfm_segment")

\* Some row of the RFM frame r has the column named.
Scored(r, name) == \E g \in 1..Len(r) : name \in DOMAIN r[g]

\* The RFM frame holds the recency, frequency and monetary of every
\* customer of the record set.
Aggregated ==
    /\ {rfm[g].customer_id : g \in 1..Len(rfm)} = {df[i].customer_id : i \in 1..Len(df)}
    /\ \A g \in 1..Len(rfm) : {"recency", "frequency", "monetary"} \subseteq DOMAIN rfm[g]

\* The equal-width bin of frequency v among 4 bins over the frequencies of
\* all customers; the bin around a frequency all customers share is the
\* second.
FrequencyBin(v) ==
    LET all == {rfm[g].frequency : g \in 1..Len(rfm)}
        mn  == CHOOSE x \in all : \A y \in all : x <= y
        mx  == CHOOSE x \in all : \A y \in all : y <= x
    IN  IF mn = mx THEN 2
        ELSE CHOOSE k \in 1..4 :
               /\ 4 * (v - mn) <= k * (mx - mn)
               /\ \A j \in 1..(k - 1) : 4 * (v - mn) > j * (mx - mn)

\* The score of customer g in the column named, from the boundaries over
\* the values of all customers.
GlobalScore(name, g) ==
    CASE name = "r_score" -> 5 - Bucket(Recencies, F(rfm[g].recency))
      [] name = "f_score" -> FrequencyBin(rfm[g].frequency)
      [] name = "m_score" -> Bucket(Monetaries, rfm[g].monetary)

\* C14: the sections run strictly in order, cleaning, derivation, then
\* aggregation and scoring; a score column is assigned only by a step that
\* starts after the aggregation, from a frame that holds the recency,
\* frequency and monetary of every customer, and each score assigned is
\* the one given by the boundaries over all customers; from the
\* aggregation on no step changes an order record or a customer's
\* aggregated values.
C14_ScoringAfterAggregation ==
    [][ /\ Position(pc') > Position(pc)
        /\ pc' # "done" => Position(pc') = Position(pc) + 1
        /\ \A name \in {"r_score", "f_score", "m_score"} :
             (Scored(rfm', name) /\ ~Scored(rfm, name)) =>
                /\ Past("rfm")
                /\ Aggregated
                /\ Len(rfm') = Len(rfm)
                /\ \A g \in 1..Len(rfm) : rfm'[g][name] = GlobalScore(name, g)
        /\ Past("rfm") =>
             /\ df' = df /\ raw' = raw
             /\ Len(rfm') = Len(rfm)
             /\ \A g \in 1..Len(rfm) : \A col \in DOMAIN rfm[g] : rfm'[g][col] = rfm[g][col]
      ]_vars

\* Three customers with three different recencies have just received the
\* last of the three scores, and the order records are those derived.
C14_Witness ==
    /\ pc = "segment"
    /\ Len(rfm) = 3 /\ Len(df) = 3
    /\ Aggregated
    /\ HasColumn("r_score") /\ HasColumn("f_score") /\ HasColumn("m_score")
    /\ Cardinality({rfm[g].r_score : g \in 1..3}) = 3

====
